---------------------------- MODULE Spec2Model ----------------------------
(***************************************************************************)
(* A model of the Grainfather protocol layer:                              *)
(*   - GrainfatherNotification::try_from  (bm-grainfather/src/lib.rs)      *)
(*   - GrainfatherCommand::to_vec         (bm-grainfather/src/lib.rs)      *)
(*   - GrainfatherClient::try_from, command, send_recipe and subscribe,    *)
(*     and the notification closure subscribe registers                    *)
(*                                        (bm/src/grainfather_client.rs)   *)
(*                                                                         *)
(* Bytes are integers 0..255, strings are sequences of bytes.  A Rust      *)
(* panic is an outcome of its own, next to Ok and Err.                     *)
(***************************************************************************)
EXTENDS Integers, Sequences, FiniteSets, TLC

(***************************************************************************)
(* Text helpers.                                                           *)
(***************************************************************************)

\* The printable ASCII characters, in code order from 32 (space) to 126.
ASCII ==
    << " ", "!", "dquote", "#", "$", "%", "&", "'", "(", ")", "*", "+", ",", "-", ".", "/",
       "0", "1", "2", "3", "4", "5", "6", "7", "8", "9", ":", ";", "<", "=", ">", "?",
       "@", "A", "B", "C", "D", "E", "F", "G", "H", "I", "J", "K", "L", "M", "N", "O",
       "P", "Q", "R", "S", "T", "U", "V", "W", "X", "Y", "Z", "[", "backslash", "]", "^", "_",
       "backtick", "a", "b", "c", "d", "e", "f", "g", "h", "i", "j", "k", "l", "m", "n", "o",
       "p", "q", "r", "s", "t", "u", "v", "w", "x", "y", "z", "{", "|", "}", "~" >>

\* The code of each of these characters.
AsciiCode ==
    [c \in {ASCII[i] : i \in 1..Len(ASCII)} |->
        31 + (CHOOSE i \in 1..Len(ASCII) : ASCII[i] = c)]

\* The byte of a character literal such as X or a comma.
Code(c) == AsciiCode[c]

\* The bytes of a literal written as a tuple of characters.
Bytes(s) == [i \in 1..Len(s) |-> Code(s[i])]

\* n copies of byte b.
Repeat(b, n) == [i \in 1..n |-> b]

\* s[from..] (1-based), the rest of a slice.
Tail_from(s, from) == SubSeq(s, from, Len(s))

IsDigit(b) == b >= 48 /\ b <= 57

\* ASCII lower-casing of one byte (eq_ignore_ascii_case in the f64 parser).
Lower(b) == IF b >= 65 /\ b <= 90 THEN b + 32 ELSE b

LowerAll(s) == [i \in 1..Len(s) |-> Lower(s[i])]

(***************************************************************************)
(* std::str::from_utf8 and str::chars, as far as try_from uses them.       *)
(***************************************************************************)

\* The length of the UTF-8 sequence starting at s[i], or 0 when no well-formed
\* sequence starts there.
Utf8SeqLen(s, i) ==
    LET b0 == s[i]
        cont(k) == k <= Len(s) /\ s[k] >= 128 /\ s[k] <= 191
    IN  IF b0 <= 127 THEN 1
        ELSE IF b0 >= 194 /\ b0 <= 223
             THEN IF cont(i + 1) THEN 2 ELSE 0
        ELSE IF b0 >= 224 /\ b0 <= 239
             THEN IF /\ cont(i + 1) /\ cont(i + 2)
                     /\ (b0 = 224 => s[i + 1] >= 160)
                     /\ (b0 = 237 => s[i + 1] <= 159)
                  THEN 3 ELSE 0
        ELSE IF b0 >= 240 /\ b0 <= 244
             THEN IF /\ cont(i + 1) /\ cont(i + 2) /\ cont(i + 3)
                     /\ (b0 = 240 => s[i + 1] >= 144)
                     /\ (b0 = 244 => s[i + 1] <= 143)
                  THEN 4 ELSE 0
        ELSE 0

RECURSIVE ValidUtf8From(_, _)
ValidUtf8From(s, i) ==
    IF i > Len(s) THEN TRUE
    ELSE LET n == Utf8SeqLen(s, i)
         IN  IF n = 0 THEN FALSE ELSE ValidUtf8From(s, i + n)

\* std::str::from_utf8(message).is_ok()
from_utf8_ok(message) == ValidUtf8From(message, 1)

\* The code point of the first char of a valid, non-empty str.
FirstChar(s) ==
    LET n == Utf8SeqLen(s, 1)
    IN  CASE n = 1 -> s[1]
          [] n = 2 -> (s[1] - 192) * 64 + (s[2] - 128)
          [] n = 3 -> (s[1] - 224) * 4096 + (s[2] - 128) * 64 + (s[3] - 128)
          [] OTHER -> (s[1] - 240) * 262144 + (s[2] - 128) * 4096
                      + (s[3] - 128) * 64 + (s[4] - 128)

\* str::split(","): the fields between commas; always at least one field.
RECURSIVE SplitFrom(_, _, _)
SplitFrom(s, i, cur) ==
    IF i > Len(s) THEN << cur >>
    ELSE IF s[i] = Code(",") THEN << cur >> \o SplitFrom(s, i + 1, << >>)
    ELSE SplitFrom(s, i + 1, Append(cur, s[i]))

split(s) == SplitFrom(s, 1, << >>)

(***************************************************************************)
(* str::parse for the unsigned integer types.  A u32 does not fit the      *)
(* integers of the model checker, so an unsigned value is kept as two      *)
(* 16-bit limbs, value = hi * 65536 + lo; the arithmetic is exact.         *)
(***************************************************************************)

U(hi, lo) == [hi |-> hi, lo |-> lo]

\* A small unsigned value.
Small(n) == U(0, n)

\* <T>::MAX for T = u8 and T = u32.
MaxOf(ty) == IF ty = "u8" THEN U(0, 255) ELSE U(65535, 65535)

\* a <= b on limbs.
ULe(a, b) == a.hi < b.hi \/ (a.hi = b.hi /\ a.lo <= b.lo)

\* v * 10 + d, exact (checked_mul(10) followed by checked_add(d)); the result may
\* exceed the type, which the caller tests with ULe.
MulAdd10(v, d) ==
    LET lo2 == v.lo * 10 + d
    IN  U(v.hi * 10 + (lo2 \div 65536), lo2 % 65536)

\* The digit loop of from_str_radix: Ok(value), Err(InvalidDigit) or Err(PosOverflow).
RECURSIVE ParseDigits(_, _, _, _)
ParseDigits(s, i, acc, ty) ==
    IF i > Len(s) THEN [ok |-> TRUE, val |-> acc]
    ELSE IF ~IsDigit(s[i]) THEN [ok |-> FALSE, err |-> "InvalidDigit"]
    ELSE LET next == MulAdd10(acc, s[i] - 48)
         IN  IF ~ULe(next, MaxOf(ty)) THEN [ok |-> FALSE, err |-> "PosOverflow"]
             ELSE ParseDigits(s, i + 1, next, ty)

\* str::parse::<u8>() and str::parse::<u32>(): no trimming, an optional leading
\* plus sign, at least one digit, decimal digits only, value within the type.
ParseUnsigned(s, ty) ==
    IF Len(s) = 0 THEN [ok |-> FALSE, err |-> "Empty"]
    ELSE LET digits == IF s[1] = Code("+") THEN Tail_from(s, 2) ELSE s
         IN  IF Len(digits) = 0 THEN [ok |-> FALSE, err |-> "Empty"]
             ELSE ParseDigits(digits, 1, Small(0), ty)

(***************************************************************************)
(* str::parse::<f64>().  An f64 is kept as a decimal: class "finite" with  *)
(* sign, the significant digits mant (no leading or trailing zero) and the *)
(* power of ten exp of the last digit, value = mant * 10^exp; or "inf";    *)
(* or "nan".  Binary rounding is not modelled; a decimal whose magnitude   *)
(* lies outside the f64 range becomes inf or zero as in the parser.        *)
(***************************************************************************)

Finite(neg, mant, exp) == [class |-> "finite", neg |-> neg, mant |-> mant, exp |-> exp]

Zero(neg) == Finite(neg, << >>, 0)

Inf(neg) == [class |-> "inf", neg |-> neg, mant |-> << >>, exp |-> 0]

NaN == [class |-> "nan", neg |-> FALSE, mant |-> << >>, exp |-> 0]

\* A NaN with the sign bit set (-f64::NAN): another f64, also not a number.
NegativeNaN == [class |-> "nan", neg |-> TRUE, mant |-> << >>, exp |-> 0]

\* The index after the run of decimal digits that starts at s[i].
RECURSIVE DigitsEnd(_, _)
DigitsEnd(s, i) == IF i <= Len(s) /\ IsDigit(s[i]) THEN DigitsEnd(s, i + 1) ELSE i

\* The digit values of a run of ASCII digits.
DigitValues(s) == [i \in 1..Len(s) |-> s[i] - 48]

RECURSIVE StripLeadingZeros(_)
StripLeadingZeros(d) ==
    IF Len(d) > 0 /\ d[1] = 0 THEN StripLeadingZeros(Tail(d)) ELSE d

\* The number of zeros at the end of d.
RECURSIVE TrailingZeros(_)
TrailingZeros(d) ==
    IF Len(d) > 0 /\ d[Len(d)] = 0
    THEN 1 + TrailingZeros(SubSeq(d, 1, Len(d) - 1)) ELSE 0

\* The value of an exponent's digits, saturated at 9999 (beyond the f64 range).
RECURSIVE ExpValue(_, _, _)
ExpValue(s, i, acc) ==
    IF i > Len(s) THEN acc
    ELSE LET next == acc * 10 + (s[i] - 48)
         IN  ExpValue(s, i + 1, IF next > 9999 THEN 9999 ELSE next)

\* A non-zero decimal as an f64: outside the f64 range it is inf or zero.
Normal(neg, mant, exp) ==
    IF Len(mant) = 0 THEN Zero(neg)
    ELSE IF exp + Len(mant) - 1 > 308 THEN Inf(neg)
    ELSE IF exp + Len(mant) - 1 < -324 THEN Zero(neg)
    ELSE Finite(neg, mant, exp)

\* The f64 of digits * 10^exp10.
Decimal(neg, digits, exp10) ==
    Normal(neg,
           StripLeadingZeros(SubSeq(digits, 1, Len(digits) - TrailingZeros(digits))),
           exp10 + TrailingZeros(digits))

InvalidFloat == [ok |-> FALSE, err |-> "Invalid"]

\* The digits of the exponent: at least one, and nothing after them.
ParseExpDigits(neg, int, frac, eneg, digits) ==
    IF Len(digits) = 0 \/ DigitsEnd(digits, 1) # Len(digits) + 1 THEN InvalidFloat
    ELSE [ok |-> TRUE,
          val |-> Decimal(neg, DigitValues(int \o frac),
                          (IF eneg THEN 0 - ExpValue(digits, 1, 0)
                                   ELSE ExpValue(digits, 1, 0)) - Len(frac))]

\* After the integer and fraction digits, which end before body[i2]: the end of
\* the text, or an exponent.
ParseExp(neg, body, int, frac, i2) ==
    IF Len(int) + Len(frac) = 0 THEN InvalidFloat
    ELSE IF i2 = Len(body) + 1
         THEN [ok |-> TRUE, val |-> Decimal(neg, DigitValues(int \o frac), 0 - Len(frac))]
    ELSE IF Lower(body[i2]) # Code("e") THEN InvalidFloat
    ELSE IF i2 + 1 <= Len(body) /\ body[i2 + 1] \in {Code("+"), Code("-")}
         THEN ParseExpDigits(neg, int, frac, body[i2 + 1] = Code("-"),
                             Tail_from(body, i2 + 2))
    ELSE ParseExpDigits(neg, int, frac, FALSE, Tail_from(body, i2 + 1))

\* After the integer digits, which end before body[i1]: an optional point and
\* fraction digits.
ParseNumber(neg, body, i1) ==
    IF i1 <= Len(body) /\ body[i1] = Code(".")
    THEN ParseExp(neg, body, SubSeq(body, 1, i1 - 1),
                  SubSeq(body, i1 + 1, DigitsEnd(body, i1 + 1) - 1),
                  DigitsEnd(body, i1 + 1))
    ELSE ParseExp(neg, body, SubSeq(body, 1, i1 - 1), << >>, i1)

\* After the sign: inf, infinity or nan in any case, or a number.
ParseF64Unsigned(neg, body) ==
    IF LowerAll(body) \in {Bytes(<<"i", "n", "f">>),
                           Bytes(<<"i", "n", "f", "i", "n", "i", "t", "y">>)}
    THEN [ok |-> TRUE, val |-> Inf(neg)]
    ELSE IF LowerAll(body) = Bytes(<<"n", "a", "n">>)
    THEN [ok |-> TRUE, val |-> NaN]
    ELSE ParseNumber(neg, body, DigitsEnd(body, 1))

\* str::parse::<f64>(): no trimming; [sign] then inf, infinity or nan, or digits
\* with an optional point and an optional exponent, at least one digit.
ParseF64(s) ==
    IF Len(s) >= 1 /\ s[1] \in {Code("+"), Code("-")}
    THEN ParseF64Unsigned(s[1] = Code("-"), Tail_from(s, 2))
    ELSE ParseF64Unsigned(FALSE, s)

(***************************************************************************)
(* GrainfatherNotification::try_from(&[u8]).  Three outcomes: Ok(value),   *)
(* Err(InvalidUtf8), and a panic (an unwrap on None or on a parse error).  *)
(***************************************************************************)

Ok(value) == [kind |-> "Ok", value |-> value]

Err(error) == [kind |-> "Err", error |-> error]

Panic(what) == [kind |-> "Panic", error |-> what]

\* str::parse::<ty>()
ParseAs(s, ty) == IF ty = "f64" THEN ParseF64(s) ELSE ParseUnsigned(s, ty)

\* .unwrap() of a parse result: the value, or a panic.
UnwrapParse(r) ==
    IF r.ok THEN r ELSE [ok |-> FALSE, err |-> "called Result::unwrap() on an Err value"]

\* ndata_fields.next().unwrap().parse::<ty>().unwrap() for the i-th field taken by
\* an arm: the field is absent (next() is None), or does not parse, or has a value.
Field(fields, i, ty) ==
    IF i > Len(fields) THEN [ok |-> FALSE, err |-> "called Option::unwrap() on a None value"]
    ELSE UnwrapParse(ParseAs(fields[i], ty))

\* The fields an arm takes, in the order of its next() calls.
FieldVals(fields, schema) == [i \in 1..Len(schema) |-> Field(fields, i, schema[i])]

AllOk(vals) == \A i \in 1..Len(vals) : vals[i].ok

\* The first unwrap that fails, in evaluation order.
FirstPanic(vals) ==
    LET i == CHOOSE k \in 1..Len(vals) :
                 ~vals[k].ok /\ \A j \in 1..(k - 1) : vals[j].ok
    IN  Panic(vals[i].err)

\* `parse::<u8>().unwrap() == 1`
IsOne(v) == v = Small(1)

\* Each arm: v holds the outcomes of the field parses of the arm, in order.
Temp(v) ==
    IF ~AllOk(v) THEN FirstPanic(v)
    ELSE Ok([type |-> "Temp", desired |-> v[1].val, current |-> v[2].val])

TempArm(fields) == Temp(FieldVals(fields, <<"f64", "f64">>))

DelayedHeatTimer(v) ==
    IF ~AllOk(v) THEN FirstPanic(v)
    ELSE Ok([type |-> "DelayedHeatTimer",
             active |-> IsOne(v[1].val),
             remaining_minutes |-> v[2].val,
             total_start_time |-> v[3].val,
             remaining_seconds |-> v[4].val])

DelayedHeatTimerArm(fields) ==
    DelayedHeatTimer(FieldVals(fields, <<"u8", "u32", "u32", "u32">>))

Status1(v) ==
    IF ~AllOk(v) THEN FirstPanic(v)
    ELSE Ok([type |-> "Status1",
             heat_active |-> IsOne(v[1].val),
             pump_active |-> IsOne(v[2].val),
             auto_mode_active |-> IsOne(v[3].val),
             stage_ramp_active |-> IsOne(v[4].val),
             interaction_mode_active |-> IsOne(v[5].val),
             interaction_code |-> v[6].val,
             stage_number |-> v[7].val,
             delayed_heat_mode_active |-> IsOne(v[8].val)])

Status1Arm(fields) ==
    Status1(FieldVals(fields, <<"u8", "u8", "u8", "u8", "u8", "u8", "u8", "u8">>))

Status2(v) ==
    IF ~AllOk(v) THEN FirstPanic(v)
    ELSE Ok([type |-> "Status2",
             heat_power_output_percentage |-> v[1].val,
             timer_paused |-> IsOne(v[2].val),
             step_mash_mode |-> IsOne(v[3].val),
             recipe_interrupted |-> IsOne(v[4].val),
             manual_power_mode |-> IsOne(v[5].val),
             sparge_water_alert_displayed |-> IsOne(v[6].val)])

Status2Arm(fields) ==
    Status2(FieldVals(fields, <<"u8", "u8", "u8", "u8", "u8", "u8">>))

Interaction(v) ==
    IF ~AllOk(v) THEN FirstPanic(v)
    ELSE Ok([type |-> "Interaction", interaction_code |-> v[1].val])

InteractionArm(fields) == Interaction(FieldVals(fields, <<"u8">>))

Boil(v) ==
    IF ~AllOk(v) THEN FirstPanic(v)
    ELSE Ok([type |-> "Boil", boil_temperature |-> v[1].val])

BoilArm(fields) == Boil(FieldVals(fields, <<"f64">>))

\* The fields put together again with their commas: the text that was split.
RECURSIVE Join(_)
Join(fields) ==
    IF Len(fields) = 1 THEN fields[1]
    ELSE fields[1] \o << Code(",") >> \o Join(Tail(fields))

\* The F arm keeping the whole text rather than its first field.
FirmwareVersionArmRestOfText(fields) ==
    Ok([type |-> "FirmwareVersion", firmware_version |-> Join(fields)])

\* ndata_fields.next().unwrap().to_string(): the first field; split always has one.
FirmwareVersionArm(fields) ==
    Ok([type |-> "FirmwareVersion", firmware_version |-> fields[1]])

VoltageAndUnits(v) ==
    IF ~AllOk(v) THEN FirstPanic(v)
    ELSE Ok([type |-> "VoltageAndUnits",
             voltage |-> IF IsOne(v[1].val) THEN "V110" ELSE "V230",
             units |-> IF IsOne(v[2].val) THEN "Celsius" ELSE "Fahrenheit"])

VoltageAndUnitsArm(fields) == VoltageAndUnits(FieldVals(fields, <<"u8", "u8">>))

\* The catch-all arm taking its text the way the F arm does, from the field
\* iterator: only the text before the first comma.
OtherArmFirstField(ndata_type, rest) ==
    Ok([type |-> "Other", tag |-> ndata_type, payload |-> split(rest)[1]])

\* _ => Ok(Self::Other(ndata_type, ndata_chars.as_str().to_string()))
OtherArm(ndata_type, rest) ==
    Ok([type |-> "Other", tag |-> ndata_type, payload |-> rest])

\* The tags that have an arm of their own.
KnownTags == {Code("X"), Code("T"), Code("Y"), Code("W"),
              Code("I"), Code("C"), Code("F"), Code("V")}

\* `match ndata_type { ... }`; rest is ndata_chars.as_str() after the first char
\* and ndata_fields its split on commas.
match_ndata_type(ndata_type, rest, ndata_fields) ==
    CASE ndata_type = Code("X") -> TempArm(ndata_fields)
      [] ndata_type = Code("T") -> DelayedHeatTimerArm(ndata_fields)
      [] ndata_type = Code("Y") -> Status1Arm(ndata_fields)
      [] ndata_type = Code("W") -> Status2Arm(ndata_fields)
      [] ndata_type = Code("I") -> InteractionArm(ndata_fields)
      [] ndata_type = Code("C") -> BoilArm(ndata_fields)
      [] ndata_type = Code("F") -> FirmwareVersionArm(ndata_fields)
      [] ndata_type = Code("V") -> VoltageAndUnitsArm(ndata_fields)
      [] OTHER -> OtherArm(ndata_type, rest)

\* The text after the first char of a valid, non-empty str.
AfterFirstChar(ndata) == Tail_from(ndata, Utf8SeqLen(ndata, 1) + 1)

try_from(message) ==
    IF ~from_utf8_ok(message) THEN Err("InvalidUtf8")
    ELSE IF Len(message) = 0 THEN Panic("called Option::unwrap() on a None value")
    ELSE match_ndata_type(FirstChar(message), AfterFirstChar(message),
                          split(AfterFirstChar(message)))

(***************************************************************************)
(* GrainfatherCommand::to_vec.                                             *)
(***************************************************************************)

\* The frame length: String::with_capacity(19) and the padding loop's 19.
FRAME_LEN == 19

\* v / 10 and v % 10 on limbs.
DivMod10(v) ==
    LET t == (v.hi % 10) * 65536 + v.lo
    IN  [q |-> U(v.hi \div 10, t \div 10), r |-> t % 10]

\* u32::to_string and u8::to_string: decimal ASCII, no leading zero, "0" for zero.
RECURSIVE UnsignedToString(_)
UnsignedToString(v) ==
    LET dm == DivMod10(v)
    IN  IF dm.q = Small(0) THEN << 48 + dm.r >>
        ELSE Append(UnsignedToString(dm.q), 48 + dm.r)

DigitChars(d) == [i \in 1..Len(d) |-> 48 + d[i]]

\* f64::to_string (Display): never an exponent; the integer digits, and a point
\* and the fraction digits only when the fraction is not zero; inf and NaN by name.
F64ToString(x) ==
    LET sign == IF x.neg THEN << Code("-") >> ELSE << >>
        n    == Len(x.mant)
    IN  CASE x.class = "nan" -> Bytes(<<"N", "a", "N">>)
          [] x.class = "inf" -> sign \o Bytes(<<"i", "n", "f">>)
          [] OTHER ->
               IF n = 0 THEN sign \o << 48 >>
               ELSE IF x.exp >= 0
                    THEN sign \o DigitChars(x.mant) \o Repeat(48, x.exp)
               ELSE IF n + x.exp > 0
                    THEN sign \o DigitChars(SubSeq(x.mant, 1, n + x.exp))
                              \o << Code(".") >>
                              \o DigitChars(SubSeq(x.mant, n + x.exp + 1, n))
               ELSE sign \o << 48, Code(".") >> \o Repeat(48, 0 - (n + x.exp))
                         \o DigitChars(x.mant)

\* One push whatever the flag.
ActiveCharAlwaysOne(active) == << Code("1") >>

\* The two pushes the other way round.
ActiveCharInverted(active) == IF active THEN << Code("0") >> ELSE << Code("1") >>

\* `if *active { output.push('1') } else { output.push('0') }`
ActiveChar(active) == IF active THEN << Code("1") >> ELSE << Code("0") >>

\* The tag and parameters pushed by the match of to_vec, before padding.
Content(c) ==
    CASE c.variant = "Reset" -> << Code("Z") >>
      [] c.variant = "GetFirmwareVersion" -> << Code("X") >>
      [] c.variant = "GetVoltageAndUnits" -> << Code("g") >>
      [] c.variant = "GetBoilTemperature" -> << Code("M") >>
      [] c.variant = "ToggleHeatActive" -> << Code("H") >>
      [] c.variant = "SetHeatActive" -> << Code("K") >> \o ActiveChar(c.active)
      [] c.variant = "TogglePumpActive" -> << Code("P") >>
      [] c.variant = "SetPumpActive" -> << Code("L") >> \o ActiveChar(c.active)
      [] c.variant = "EnableDelayedHeatTimer" ->
             << Code("B") >> \o UnsignedToString(c.minutes) \o << Code(",") >>
                             \o UnsignedToString(c.seconds)
      [] c.variant = "CancelActiveTimer" -> << Code("C") >>
      [] c.variant = "UpdateActiveTimerMinutesSeconds" ->
             << Code("W") >> \o UnsignedToString(c.minutes) \o << Code(",") >>
                             \o UnsignedToString(c.seconds)
      [] c.variant = "UpdateActiveTimerMinutes" ->
             << Code("S") >> \o UnsignedToString(c.minutes)
      [] c.variant = "PauseOrResumeActiveTimer" -> << Code("G") >>
      [] c.variant = "IncrementTargetTemperature" -> << Code("U") >>
      [] c.variant = "DecrementTargetTemperature" -> << Code("D") >>
      [] c.variant = "SetTargetTemperature" -> << Code("$") >> \o F64ToString(c.temp)
      [] c.variant = "SetLocalBoilTemperature" -> << Code("E") >> \o F64ToString(c.temp)
      [] c.variant = "DismissBoilAdditionAlert" -> << Code("A") >>
      [] c.variant = "CancelOrFinishSession" -> << Code("F") >>
      [] c.variant = "PressSet" -> << Code("T") >>
      [] c.variant = "DisableSpargeWaterAlert" -> << Code("V") >>
      [] c.variant = "ResetRecipeInterrupted" -> << Code("!") >>
      [] c.variant = "SetSpargeCounterActive" -> << Code("d") >> \o ActiveChar(c.active)
      [] c.variant = "SetBoilControlActive" -> << Code("e") >> \o ActiveChar(c.active)
      [] c.variant = "SetManualPowerControlActive" ->
             << Code("f") >> \o ActiveChar(c.active)
      [] c.variant = "SetSpargeAlertModeActive" ->
             << Code("h") >> \o ActiveChar(c.active)

\* `for _ in 0..(19 - output.len()) { output.push(' ') }` on usize.  When the
\* content is longer than the frame the subtraction overflows: a build with
\* overflow checks panics there, a build without them wraps to a count near
\* 2^64 and the loop pushes spaces until allocation fails and the process aborts.
Padded(output) ==
    IF Len(output) <= FRAME_LEN
    THEN {Ok(output \o Repeat(Code(" "), FRAME_LEN - Len(output)))}
    ELSE {Panic("attempt to subtract with overflow"),
          [kind |-> "Abort", error |-> "memory allocation failed"]}

\* The outcomes of command.to_vec().
to_vec(c) == Padded(Content(c))

(***************************************************************************)
(* The closure GrainfatherClient::subscribe registers with on_notification.*)
(***************************************************************************)

\* const NOTIFICATION_LEN: usize = 17
NOTIFICATION_LEN == 17

\* A count that stops at one record: the callback takes a single record per call.
notification_count_at_most_one(buf) == IF Len(buf) >= NOTIFICATION_LEN THEN 1 ELSE 0

\* let notification_count = gf_notification_buf.len() / NOTIFICATION_LEN
notification_count(buf) == Len(buf) \div NOTIFICATION_LEN

\* let notifications_len = notification_count * NOTIFICATION_LEN
notifications_len(buf) == notification_count(buf) * NOTIFICATION_LEN

\* slice.chunks_exact(NOTIFICATION_LEN): the whole records of a slice, in order.
chunks_exact(slice) ==
    [k \in 1..(Len(slice) \div NOTIFICATION_LEN) |->
        SubSeq(slice, (k - 1) * NOTIFICATION_LEN + 1, k * NOTIFICATION_LEN)]

\* Result::unwrap() on the outcome of try_from: it panics on Err(InvalidUtf8), and
\* a panic inside try_from passes through it.
unwrap(r) ==
    IF r.kind = "Err" THEN Panic("called Result::unwrap() on an Err value") ELSE r

\* GrainfatherNotification::try_from(notification).unwrap() for each record.
Decoded(recs) == [k \in 1..Len(recs) |-> unwrap(try_from(recs[k]))]

\* The for loop over the drained records recs with decoding outcomes outs: each
\* notification goes to the handler in order, and the loop ends at the first
\* record whose decoding panics.  tail is what the buffer keeps.
\*   buf       the buffer after the call
\*   yielded   the records the loop took and passed to try_from
\*   delivered the notifications passed to handler
\*   panicked  whether the call ended in a panic
for_each(tail, recs, outs) ==
    LET bad  == {k \in 1..Len(recs) : outs[k].kind # "Ok"}
        stop == IF bad = {} THEN Len(recs) + 1
                ELSE CHOOSE k \in bad : \A j \in bad : k <= j
    IN  [buf       |-> tail,
         yielded   |-> SubSeq(recs, 1, IF bad = {} THEN Len(recs) ELSE stop),
         delivered |-> [k \in 1..(stop - 1) |-> outs[k].value],
         panicked  |-> bad # {}]

\* gf_notification_buf.drain(..notifications_len).as_slice().chunks_exact(17): the
\* Drain temporary is dropped at the end of the loop, also while a panic unwinds,
\* and its drop removes the drained range: the buffer keeps the bytes after it.
drain(buf, recs) == for_each(Tail_from(buf, notifications_len(buf) + 1), recs, Decoded(recs))

\* One call of the closure on its buffer and a chunk: append, then drain the whole
\* records, decode each and hand it to the handler.
on_value_notification(buf, value) ==
    drain(buf \o value, chunks_exact(SubSeq(buf \o value, 1, notifications_len(buf \o value))))

(***************************************************************************)
(* GrainfatherClient: the session over a transport (GrainfatherClientImpl).*)
(* A call of the transport is written down as a record: the operation, the *)
(* characteristic and the data it was given, and what it returned.         *)
(***************************************************************************)

\* pub const CHARACTERISTIC_ID_READ: u128 = 0x0003cdd100001000800000805f9b0131,
\* as its sixteen bytes, most significant first.
CHARACTERISTIC_ID_READ ==
    << 0, 3, 205, 209, 0, 0, 16, 0, 128, 0, 0, 128, 95, 155, 1, 49 >>

\* pub const CHARACTERISTIC_ID_WRITE: u128 = 0x0003cdd200001000800000805f9b0131
CHARACTERISTIC_ID_WRITE ==
    << 0, 3, 205, 210, 0, 0, 16, 0, 128, 0, 0, 128, 95, 155, 1, 49 >>

\* u128::to_le_bytes: the sixteen bytes, least significant first.
to_le_bytes(id) == [i \in 1..Len(id) |-> id[Len(id) + 1 - i]]

\* UUID::B128(bytes)
B128(bytes) == [kind |-> "B128", bytes |-> bytes]

\* let rc_id = UUID::B128(CHARACTERISTIC_ID_READ.to_le_bytes())
rc_id == B128(to_le_bytes(CHARACTERISTIC_ID_READ))

\* let wc_id = UUID::B128(CHARACTERISTIC_ID_WRITE.to_le_bytes())
wc_id == B128(to_le_bytes(CHARACTERISTIC_ID_WRITE))

\* A btleplug Characteristic, as far as the client looks at it: its uuid, and the
\* handle that tells two characteristics with one uuid apart.
Characteristic(uuid, value_handle) == [uuid |-> uuid, value_handle |-> value_handle]

\* No characteristic: the argument of a transport call that takes none, and the
\* None of Iterator::find.
NoCharacteristic == Characteristic(B128(<< >>), 0)

\* The unit value of Ok(()).
Unit == << >>

\* One call of the transport.
Call(op, characteristic, data, result) ==
    [op |-> op, characteristic |-> characteristic, data |-> data, result |-> result]

\* cs.iter().find(|c| c.uuid == id): the first characteristic with that uuid.
find(cs, id) ==
    IF \E i \in 1..Len(cs) : cs[i].uuid = id
    THEN cs[CHOOSE i \in 1..Len(cs) :
                cs[i].uuid = id /\ \A j \in 1..(i - 1) : cs[j].uuid # id]
    ELSE NoCharacteristic

\* The client try_from builds: Self { gf, read: rc.clone(), write: wc.clone() }.
Client(rc, wc) == [read |-> rc, write |-> wc]

\* No client: try_from has not returned one.
NoClient == Client(NoCharacteristic, NoCharacteristic)

\* A GrainfatherClientError: Connect(e) and DiscoverCharacteristics(e) carry the
\* error of the transport, ReadCharacteristic and WriteCharacteristic carry none.
GrainfatherClientError(variant, error) == [variant |-> variant, error |-> error]

\* A try_from that looks the write characteristic up under the read identifier.
resolve_write_by_read_id(cs) ==
    IF find(cs, rc_id) = NoCharacteristic
    THEN Err(GrainfatherClientError("ReadCharacteristic", "none"))
    ELSE Ok(Client(find(cs, rc_id), find(cs, rc_id)))

\* A try_from that takes what find returns without telling None from Some.
resolve_unchecked(cs) == Ok(Client(find(cs, rc_id), find(cs, wc_id)))

\* try_from after discover_characteristics() returned Ok(cs): the read
\* characteristic is looked up first, then the write one.
resolve(cs) ==
    IF find(cs, rc_id) = NoCharacteristic THEN Err(GrainfatherClientError("ReadCharacteristic", "none"))
    ELSE IF find(cs, wc_id) = NoCharacteristic THEN Err(GrainfatherClientError("WriteCharacteristic", "none"))
    ELSE Ok(Client(find(cs, rc_id), find(cs, wc_id)))

\* try_from from `let cs = gf.discover_characteristics().map_err(..)?` on; discovered
\* is what the transport returns.
discover(discovered) ==
    [calls  |-> << Call("discover_characteristics", NoCharacteristic, << >>, discovered) >>,
     result |-> IF discovered.kind = "Err"
                THEN Err(GrainfatherClientError("DiscoverCharacteristics", discovered.error))
                ELSE resolve(discovered.value)]

\* The try_from that asks the transport to connect whatever is_connected says.
GrainfatherClient_try_from_always_connecting(connected, connect_result, discovered) ==
    IF connect_result.kind = "Err"
    THEN [calls  |-> << Call("is_connected", NoCharacteristic, << >>, Ok(connected)),
                        Call("connect", NoCharacteristic, << >>, connect_result) >>,
          result |-> Err(GrainfatherClientError("Connect", connect_result.error))]
    ELSE [calls  |-> << Call("is_connected", NoCharacteristic, << >>, Ok(connected)),
                        Call("connect", NoCharacteristic, << >>, connect_result) >>
                     \o discover(discovered).calls,
          result |-> discover(discovered).result]

\* GrainfatherClient::try_from(gf): the calls it makes of the transport, in order,
\* and what it returns.  connected, connect_result and discovered are what the
\* transport answers to is_connected(), connect() and discover_characteristics().
GrainfatherClient_try_from(connected, connect_result, discovered) ==
    IF connected
    THEN [calls  |-> << Call("is_connected", NoCharacteristic, << >>, Ok(TRUE)) >>
                     \o discover(discovered).calls,
          result |-> discover(discovered).result]
    ELSE IF connect_result.kind = "Err"
    THEN [calls  |-> << Call("is_connected", NoCharacteristic, << >>, Ok(FALSE)),
                        Call("connect", NoCharacteristic, << >>, connect_result) >>,
          result |-> Err(GrainfatherClientError("Connect", connect_result.error))]
    ELSE [calls  |-> << Call("is_connected", NoCharacteristic, << >>, Ok(FALSE)),
                        Call("connect", NoCharacteristic, << >>, connect_result) >>
                     \o discover(discovered).calls,
          result |-> discover(discovered).result]

\* GrainfatherClient::command(&command): frame is the outcome of command.to_vec()
\* and write_result what the transport answers to the write.  Without a frame
\* (to_vec did not return) the transport is not called.
GrainfatherClient_command(self, frame, write_result) ==
    IF frame.kind # "Ok" THEN [calls |-> << >>, result |-> frame]
    ELSE [calls  |-> << Call("command", self.write, frame.value, write_result) >>,
          result |-> write_result]

\* The index of the first Err among results, or Len(results) + 1.
RECURSIVE FirstErr(_, _)
FirstErr(results, k) ==
    IF k > Len(results) \/ results[k].kind = "Err" THEN k
    ELSE FirstErr(results, k + 1)

\* The loop taking the commands from the last to the first.
send_each_newest_first(self, commands, results, stop) ==
    [calls  |-> [k \in 1..(IF stop > Len(commands) THEN Len(commands) ELSE stop) |->
                    Call("command", self.write, commands[Len(commands) + 1 - k],
                         results[k])],
     result |-> IF stop > Len(commands) THEN Ok(Unit) ELSE results[stop]]

\* The loop writing every command whatever the transport answers, and returning
\* the first error afterwards.
send_each_continuing(self, commands, results, stop) ==
    [calls  |-> [k \in 1..Len(commands) |->
                    Call("command", self.write, commands[k], results[k])],
     result |-> IF stop > Len(commands) THEN Ok(Unit) ELSE results[stop]]

\* The for loop of send_recipe over commands = recipe.to_commands(): one write
\* per command, in order, up to and including the first the transport refuses
\* (the ? returns its error).  results[k] is what the transport answers to the
\* write of commands[k], were it made.
send_each(self, commands, results, stop) ==
    [calls  |-> [k \in 1..(IF stop > Len(commands) THEN Len(commands) ELSE stop) |->
                    Call("command", self.write, commands[k], results[k])],
     result |-> IF stop > Len(commands) THEN Ok(Unit) ELSE results[stop]]

\* GrainfatherClient::send_recipe(&recipe)
GrainfatherClient_send_recipe(self, commands, results) ==
    send_each(self, commands, results, FirstErr(results, 1))

\* The subscribe that asks for the notifications of the write characteristic.
GrainfatherClient_subscribe_on_write(self, subscribe_answer) ==
    [calls  |-> << Call("on_notification", NoCharacteristic, << >>, Ok(Unit)),
                   Call("subscribe", self.write, << >>, subscribe_answer) >>,
     result |-> subscribe_answer]

\* The subscribe that asks the transport first and registers the callback only
\* once the transport has accepted.
GrainfatherClient_subscribe_registering_on_success(self, subscribe_answer) ==
    [calls  |-> << Call("subscribe", self.read, << >>, subscribe_answer) >>
                \o (IF subscribe_answer.kind = "Ok"
                    THEN << Call("on_notification", NoCharacteristic, << >>, Ok(Unit)) >>
                    ELSE << >>),
     result |-> subscribe_answer]

\* GrainfatherClient::subscribe(handler): self.gf.on_notification(closure), then
\* self.gf.subscribe(&self.read), whose answer is returned.
GrainfatherClient_subscribe(self, subscribe_answer) ==
    [calls  |-> << Call("on_notification", NoCharacteristic, << >>, Ok(Unit)),
                   Call("subscribe", self.read, << >>, subscribe_answer) >>,
     result |-> subscribe_answer]

(***************************************************************************)
(* State.                                                                  *)
(***************************************************************************)

VARIABLES
    client,               \* the GrainfatherClient try_from returned, or NoClient
    open_result,          \* what GrainfatherClient::try_from returned
    calls,                \* history: the calls made of the transport, in order
    last,                 \* history: the latest command, send_recipe or subscribe
    cb,                   \* the callback held by the transport: "none",
                          \* "registered", or "dead" (it is never called again)
    subscribe_result,     \* what subscribe() returned
    gf_notification_buf,  \* the buffer the closure owns
    air,                  \* bytes the appliance sent, not yet handed to the callback
    sent,                 \* the number of transmissions so far
    received,             \* history: all chunks handed to the callback, concatenated
    records,              \* history: the records passed to try_from, in order
    handled,              \* history: the notifications passed to handler, in order
    panicked,             \* history: whether a call of the callback panicked
    later,                \* the callbacks of later subscribe() calls, in order
    message,              \* decoder run: the record given to try_from
    decoded,              \* decoder run: its outcome
    command,              \* encoder run: the command given to to_vec
    encoded               \* encoder run: its outcome

client_vars == << client, open_result, calls, last >>

vars == << client_vars, cb, subscribe_result, gf_notification_buf, air, sent, received,
           records, handled, panicked, later, message, decoded, command, encoded >>

session_vars == << client_vars, cb, subscribe_result, gf_notification_buf, air, sent,
                   received, records, handled, panicked, later >>

\* The outcome of a run that has not happened.
NotRun == [kind |-> "None"]

NoCommand == [variant |-> "None"]

\* A call of command, send_recipe or subscribe: its argument, what it returned,
\* and how many calls of the transport had been made before it.
Operation(op, arg, result, from) == [op |-> op, arg |-> arg, result |-> result, from |-> from]

NoOperation == Operation("none", << >>, NotRun, 0)

\* No client has been asked for, and nothing has been asked of the transport.
NotOpened ==
    /\ client = NoClient
    /\ open_result = NotRun
    /\ calls = << >>
    /\ last = NoOperation

\* The process has aborted: nothing runs any more.
Aborted == last.result.kind = "Abort"

(***************************************************************************)
(* The notification flow of one subscription.                              *)
(***************************************************************************)

\* The number of transmissions of the appliance in a run.
MaxSent == 2

\* s followed by byte b up to the record length.
Pad(s, b) == s \o Repeat(b, NOTIFICATION_LEN - Len(s))

RecordV11 == Pad(Bytes(<<"V", "1", ",", "1", ",">>), Code("Z"))

RecordQabc == Pad(Bytes(<<"Q", "a", "b", "c">>), Code(" "))

\* A Temp record whose second field is not a number.
RecordMalformed ==
    Pad(Bytes(<<"X", "6", "5", ".", "0", ",", "a", "b", "c", ",">>), Code("Z"))

\* A record that is not valid UTF-8.
RecordNotText == Pad(<< Code("Q"), 255 >>, Code("Z"))

\* Three stray bytes, which shift every later record boundary.
Fragment == Bytes(<<"Z", "Z", "Z">>)

\* What the appliance may transmit.
Transmissions == {RecordV11, RecordQabc, RecordMalformed, RecordNotText, Fragment}

Init ==
    /\ NotOpened
    /\ cb = "none"
    /\ subscribe_result = NotRun
    /\ gf_notification_buf = << >>
    /\ later = << >>
    /\ air = << >>
    /\ sent = 0
    /\ received = << >>
    /\ records = << >>
    /\ handled = << >>
    /\ panicked = FALSE
    /\ message = << >>
    /\ decoded = NotRun
    /\ command = NoCommand
    /\ encoded = NotRun

\* The errors a call of the transport may answer with.
TransportErrors == {"NotConnected", "TimedOut"}

\* What the transport may answer to connect, command and subscribe.
TransportResults == {Ok(Unit)} \cup {Err(e) : e \in TransportErrors}

\* The read and the write characteristic of the appliance.
ReadCharacteristic == Characteristic(rc_id, 1)

WriteCharacteristic == Characteristic(wc_id, 2)

\* Discovery as it goes with the appliance: both characteristics are there.
ApplianceDiscovered == Ok(<< ReadCharacteristic, WriteCharacteristic >>)

\* GrainfatherClient::try_from(gf).  One client is made in a run.
Open(connected, connect_result, discovered) ==
    /\ open_result = NotRun
    /\ \E r \in {GrainfatherClient_try_from(connected, connect_result, discovered)} :
           /\ open_result' = r.result
           /\ client' = IF r.result.kind = "Ok" THEN r.result.value ELSE NoClient
           /\ calls' = calls \o r.calls
    /\ UNCHANGED << last, cb, subscribe_result, gf_notification_buf, air, sent, received,
                    records, handled, panicked, later, message,
                    decoded, command, encoded >>

\* The writes among the calls of the transport.
Writes(cs) == Len(SelectSeq(cs, LAMBDA call : call.op = "command"))

\* The number of writes asked of the transport in a run.
MaxWrites == 2

\* A command that also empties the reassembly buffer, as it could were the
\* buffer a field of the client rather than a capture of the closure.
CommandClearingBuffer(c, write_result) ==
    /\ client # NoClient
    /\ ~Aborted
    /\ Writes(calls) < MaxWrites
    /\ \E frame \in to_vec(c) :
       \E r \in {GrainfatherClient_command(client, frame, write_result)} :
           /\ calls' = calls \o r.calls
           /\ last' = Operation("command", c, r.result, Len(calls))
    /\ gf_notification_buf' = << >>
    /\ UNCHANGED << client, open_result, cb, subscribe_result, air,
                    sent, received, records, handled, panicked, later, message,
                    decoded,
                    command, encoded >>

\* client.command(&c): to_vec, then the write.  When to_vec does not return a
\* frame the call ends in its panic, or the process aborts.
Command(c, write_result) ==
    /\ client # NoClient
    /\ ~Aborted
    /\ Writes(calls) < MaxWrites
    /\ \E frame \in to_vec(c) :
       \E r \in {GrainfatherClient_command(client, frame, write_result)} :
           /\ calls' = calls \o r.calls
           /\ last' = Operation("command", c, r.result, Len(calls))
    /\ UNCHANGED << client, open_result, cb, subscribe_result, gf_notification_buf, air,
                    sent, received, records, handled, panicked, later, message,
                    decoded,
                    command, encoded >>

\* client.send_recipe(&recipe): commands is what recipe.to_commands() returns.
SendRecipe(commands, results) ==
    /\ client # NoClient
    /\ ~Aborted
    /\ Writes(calls) + Len(commands) <= MaxWrites
    /\ \E r \in {GrainfatherClient_send_recipe(client, commands, results)} :
           /\ calls' = calls \o r.calls
           /\ last' = Operation("send_recipe", commands, r.result, Len(calls))
    /\ UNCHANGED << client, open_result, cb, subscribe_result, gf_notification_buf, air,
                    sent, received, records, handled, panicked, later, message,
                    decoded,
                    command, encoded >>

\* Whether on_notification is among the calls: the transport then holds the closure.
Registers(cs) == \E i \in 1..Len(cs) : cs[i].op = "on_notification"

\* client.subscribe(handler): a fresh empty buffer moves into the closure, the
\* closure is registered, then the transport is asked to subscribe on the read
\* characteristic and its answer is returned.  This is the first subscription
\* of the client.
Subscribe(result) ==
    /\ client # NoClient
    /\ ~Aborted
    /\ cb = "none"
    /\ subscribe_result = NotRun
    /\ \E r \in {GrainfatherClient_subscribe(client, result)} :
           /\ cb' = IF Registers(r.calls) THEN "registered" ELSE cb
           /\ subscribe_result' = r.result
           /\ calls' = calls \o r.calls
           /\ last' = Operation("subscribe", << >>, r.result, Len(calls))
    /\ gf_notification_buf' = << >>
    /\ UNCHANGED << client, open_result, air, sent, received, records, handled, panicked,
                    later, message, decoded, command, encoded >>

\* The appliance transmits; the bytes are on their way to the callback.
Transmit(t) ==
    /\ sent < MaxSent
    /\ sent' = sent + 1
    /\ air' = air \o t
    /\ UNCHANGED << client_vars, cb, subscribe_result, gf_notification_buf, received,
                    records, handled, panicked, later, message,
                    decoded, command, encoded >>

\* The callback of a later subscribe() call: the buffer its closure owns and, as
\* history, the chunks handed to it, the records it passed to try_from, and
\* whether a call of it panicked.
Callback(buf, chunks, passed, failed) ==
    [buf |-> buf, received |-> chunks, records |-> passed, panicked |-> failed]

\* The closure of a subscribe() call starts from a Vec of its own, empty.
NewCallback == Callback(<< >>, << >>, << >>, FALSE)

\* The subscribe() calls of one client that are followed.
MaxSubscriptions == 2

ResubscribeSharingBuffer(result) ==
    /\ client # NoClient
    /\ ~Aborted
    /\ cb # "none"
    /\ 1 + Len(later) < MaxSubscriptions
    /\ \E r \in {GrainfatherClient_subscribe(client, result)} :
           /\ later' = IF Registers(r.calls)
                        THEN Append(later, Callback(gf_notification_buf, << >>, << >>, FALSE))
                        ELSE later
           /\ calls' = calls \o r.calls
           /\ last' = Operation("subscribe", << >>, r.result, Len(calls))
    /\ UNCHANGED << client, open_result, cb, subscribe_result, gf_notification_buf, air,
                    sent, received, records, handled, panicked, message, decoded,
                    command, encoded >>

\* GrainfatherClient::subscribe called again on a client that has subscribed: a
\* further closure, with a buffer of its own, is registered next to the ones the
\* transport holds, and the transport is asked to subscribe once more.
\* subscribe_result keeps what the first call returned.
Resubscribe(result) ==
    /\ client # NoClient
    /\ ~Aborted
    /\ cb # "none"
    /\ 1 + Len(later) < MaxSubscriptions
    /\ \E r \in {GrainfatherClient_subscribe(client, result)} :
           /\ later' = IF Registers(r.calls) THEN Append(later, NewCallback) ELSE later
           /\ calls' = calls \o r.calls
           /\ last' = Operation("subscribe", << >>, r.result, Len(calls))
    /\ UNCHANGED << client, open_result, cb, subscribe_result, gf_notification_buf, air,
                    sent, received, records, handled, panicked, message, decoded,
                    command, encoded >>

\* A callback after a call of its closure whose outcome is r.
called(c, value, r) ==
    Callback(r.buf, c.received \o value, c.records \o r.yielded, c.panicked \/ r.panicked)

\* The callbacks after the transport has handed them a chunk, and whether a
\* panic is unwinding.  The transport calls the callbacks it holds in the order
\* of their registration, each with the same bytes; a panic of one unwinds
\* through the transport, so the callbacks after it are not called.
Called(callbacks, unwinding) == [callbacks |-> callbacks, unwinding |-> unwinding]

after(c, rest) == Called(<< c >> \o rest.callbacks, rest.unwinding)

RECURSIVE call_each(_, _, _)
RECURSIVE call_next(_, _, _)
call_each(callbacks, value, unwinding) ==
    IF callbacks = << >> \/ unwinding
    THEN Called(callbacks, unwinding)
    ELSE call_next(callbacks, value, on_value_notification(Head(callbacks).buf, value))

call_next(callbacks, value, r) ==
    after(called(Head(callbacks), value, r), call_each(Tail(callbacks), value, r.panicked))

\* The transport hands the next n bytes, n >= 0, whatever the record boundaries,
\* to the callback of the first subscribe() and then to the later ones.  When a
\* call panics the transport either never calls a callback again (the process
\* aborts, or the notifying thread dies) or, having caught the unwinding, goes
\* on calling them: the transport decides, not this code.  (r and rest are bound
\* once, as the only member of a set; survives matters only to a call that
\* panics.)
Notify(n, survives) ==
    /\ cb = "registered"
    /\ ~Aborted
    /\ \E r \in {on_value_notification(gf_notification_buf, SubSeq(air, 1, n))} :
       \E rest \in {call_each(later, SubSeq(air, 1, n), r.panicked)} :
           /\ (survives \/ rest.unwinding)
           /\ air' = Tail_from(air, n + 1)
           /\ received' = received \o SubSeq(air, 1, n)
           /\ gf_notification_buf' = r.buf
           /\ records' = records \o r.yielded
           /\ handled' = handled \o r.delivered
           /\ panicked' = (panicked \/ r.panicked)
           /\ later' = rest.callbacks
           /\ cb' = IF rest.unwinding /\ ~survives THEN "dead" ELSE cb
    /\ UNCHANGED << client_vars, subscribe_result, sent, message, decoded, command,
                    encoded >>

\* The notification flow: a client of the appliance, already connected, its
\* subscription, and the bytes of the appliance.
Next ==
    \/ \E discovered \in {ApplianceDiscovered} : Open(TRUE, Ok(Unit), discovered)
    \/ \E result \in {Ok(Unit), Err("TimedOut")} : Subscribe(result)
    \/ \E t \in Transmissions : Transmit(t)
    \/ \E n \in 0..Len(air), survives \in BOOLEAN : Notify(n, survives)

Spec == Init /\ [][Next]_vars

(***************************************************************************)
(* The session: any transport, try_from, command, send_recipe and          *)
(* subscribe.                                                              *)
(***************************************************************************)

\* A characteristic of the appliance that is neither of the two.
OtherCharacteristic ==
    Characteristic(
        B128(to_le_bytes(<< 0, 3, 205, 211, 0, 0, 16, 0, 128, 0, 0, 128, 95, 155, 1, 49 >>)), 3)

\* A second characteristic with the uuid of the read one.
ReadCharacteristicAgain == Characteristic(rc_id, 4)

\* A characteristic whose uuid holds the bytes of the read identifier most
\* significant first.
ReadCharacteristicReversed == Characteristic(B128(CHARACTERISTIC_ID_READ), 5)

\* What the transport may answer to discover_characteristics().
SampleDiscoveries ==
    {Err(e) : e \in TransportErrors}
    \cup {Ok(cs) : cs \in
            {<< >>,
             << ReadCharacteristic >>,
             << WriteCharacteristic >>,
             << OtherCharacteristic, ReadCharacteristicReversed, WriteCharacteristic >>,
             << ReadCharacteristic, WriteCharacteristic >>,
             << OtherCharacteristic, WriteCharacteristic, ReadCharacteristic >>,
             << ReadCharacteristicAgain, ReadCharacteristic, WriteCharacteristic >>}}

\* The commands given to command(): Reset, SetHeatActive(true), and
\* SetTargetTemperature(1e21), whose content is longer than a frame.
SessionCommands ==
    {[variant |-> "Reset"],
     [variant |-> "SetHeatActive", active |-> TRUE],
     [variant |-> "SetTargetTemperature", temp |-> Finite(FALSE, <<1>>, 21)]}

\* What recipe.to_commands() may return: wire-ready commands, in order.
SampleRecipes ==
    {<< Bytes(<<"R", "1">>) >>,
     << Bytes(<<"R", "1">>), Bytes(<<"T", "2">>) >>,
     << Bytes(<<"T", "2">>), Bytes(<<"R", "1">>), Bytes(<<"R", "1">>) >>}

\* The answers of the transport to the writes of a recipe of n commands.
WriteResults(n) == [1..n -> {Ok(Unit), Err("TimedOut")}]

NextSession ==
    \/ \E connected \in BOOLEAN, connect_result \in TransportResults,
          discovered \in SampleDiscoveries :
          Open(connected, connect_result, discovered)
    \/ \E c \in SessionCommands, write_result \in TransportResults :
          Command(c, write_result)
    \/ \E commands \in SampleRecipes :
          \E results \in WriteResults(Len(commands)) : SendRecipe(commands, results)
    \/ \E result \in TransportResults : Subscribe(result)

SpecSession == Init /\ [][NextSession]_vars

(***************************************************************************)
(* The session and the notification flow side by side: commands and a      *)
(* recipe go out while the bytes of the appliance come in.                 *)
(***************************************************************************)

NextBoth ==
    \/ \E discovered \in {ApplianceDiscovered} : Open(TRUE, Ok(Unit), discovered)
    \/ \E c \in {[variant |-> "Reset"]} : Command(c, Ok(Unit))
    \/ \E commands \in {<< Bytes(<<"R", "1">>) >>} :
          SendRecipe(commands, << Ok(Unit) >>)
    \/ \E result \in TransportResults : Subscribe(result)
    \/ \E t \in {RecordQabc} : Transmit(t)
    \/ \E n \in 0..Len(air), survives \in BOOLEAN : Notify(n, survives)

SpecBoth == Init /\ [][NextBoth]_vars

(***************************************************************************)
(* A client that subscribes more than once: every subscribe() registers a  *)
(* closure, and the transport hands each chunk to all of them.             *)
(***************************************************************************)

\* The lengths of the chunks the transport hands over.
SampleChunkLens == {0, 3, 17, 20}

NextResubscribe ==
    \/ \E discovered \in {ApplianceDiscovered} : Open(TRUE, Ok(Unit), discovered)
    \/ \E result \in {Ok(Unit)} : Subscribe(result)
    \/ \E result \in {Ok(Unit), Err("TimedOut")} : Resubscribe(result)
    \/ \E t \in {Fragment, RecordQabc, RecordMalformed} : Transmit(t)
    \/ \E n \in {m \in SampleChunkLens : m <= Len(air)}, survives \in BOOLEAN :
          Notify(n, survives)

SpecResubscribe == Init /\ [][NextResubscribe]_vars

(***************************************************************************)
(* The decoder alone: try_from applied to one complete record.             *)
(***************************************************************************)

\* Leading bytes: the eight tags, two other letters, a two-byte character, and
\* a byte that no UTF-8 text contains.
SampleTags ==
    {<< Code("X") >>, << Code("T") >>, << Code("Y") >>, << Code("W") >>,
     << Code("I") >>, << Code("C") >>, << Code("F") >>, << Code("V") >>,
     << Code("Q") >>, << Code("Z") >>, << 195, 169 >>, << 255 >>}

SamplePayloads ==
    {Bytes(<< >>),
     Bytes(<<"7">>),
     Bytes(<<"2", "5", "6">>),
     Bytes(<<"a", "b", "c">>),
     Bytes(<<"1", ",", "1">>),
     Bytes(<<"0", ",", "0">>),
     Bytes(<<"0", ",", "1">>),
     Bytes(<<"1", ",", "x">>),
     Bytes(<<"1", ".", "2", ",", "3">>),
     Bytes(<<"6", "5", ".", "0", ",", "6", "4", ".", "3">>),
     Bytes(<<"1", ",", "2", ",", "3", ",", "4">>),
     Bytes(<<"1", ",", "4", "2", "9", "4", "9", "6", "7", "2", "9", "6", ",", "0", ",", "0">>),
     Bytes(<<"5", "0", ",", "0", ",", "1", ",", "0", ",", "0", ",", "1">>),
     Bytes(<<"1", ",", "0", ",", "1", ",", "0", ",", "1", ",", "7", ",", "2", ",", "0">>),
     Repeat(Code("0"), 15) \o Bytes(<<"1">>)}

\* What follows the last field: nothing, or a comma.
SampleTerminators == {<< >>, << Code(",") >>}

\* The byte a record is filled up with.
SamplePadding == {Code(" "), Code("Z")}

\* The complete records given to the decoder.
SampleRecords ==
    {Pad(t \o f \o e, b) :
        << t, f, e, b >> \in
            {x \in SampleTags \X SamplePayloads \X SampleTerminators \X SamplePadding :
                Len(x[1]) + Len(x[2]) + Len(x[3]) <= NOTIFICATION_LEN}}

InitDecode ==
    /\ message \in SampleRecords
    /\ decoded = NotRun
    /\ NotOpened
    /\ cb = "none"
    /\ subscribe_result = NotRun
    /\ gf_notification_buf = << >>
    /\ later = << >>
    /\ air = << >>
    /\ sent = 0
    /\ received = << >>
    /\ records = << >>
    /\ handled = << >>
    /\ panicked = FALSE
    /\ command = NoCommand
    /\ encoded = NotRun

\* GrainfatherNotification::try_from(message)
Decode ==
    /\ decoded = NotRun
    /\ decoded' = try_from(message)
    /\ UNCHANGED << session_vars, message, command, encoded >>

NextDecode == Decode

SpecDecode == InitDecode /\ [][NextDecode]_vars

(***************************************************************************)
(* The encoder alone: to_vec applied to one command.                       *)
(***************************************************************************)

\* 0, 2, 65536 and u32::MAX.
SampleMinutes == {Small(0), Small(2), U(1, 0), U(65535, 65535)}

\* 0, 30 and u8::MAX.
SampleSeconds == {Small(0), Small(30), Small(255)}

\* 0, 65, 65.5, 100, -12.5, 0.30000000000000004 (the f64 of 0.1 + 0.2), 1e21,
\* NaN, -NaN and inf.
SampleTemperatures ==
    {Zero(FALSE),
     Finite(FALSE, <<6, 5>>, 0),
     Finite(FALSE, <<6, 5, 5>>, -1),
     Finite(FALSE, <<1>>, 2),
     Finite(TRUE, <<1, 2, 5>>, -1),
     Finite(FALSE, <<3, 0, 0, 0, 0, 0, 0, 0, 0, 0, 0, 0, 0, 0, 0, 0, 4>>, -17),
     Finite(FALSE, <<1>>, 21),
     NaN,
     NegativeNaN,
     Inf(FALSE)}

UnitVariants ==
    {"Reset", "GetFirmwareVersion", "GetVoltageAndUnits", "GetBoilTemperature",
     "ToggleHeatActive", "TogglePumpActive", "CancelActiveTimer",
     "PauseOrResumeActiveTimer", "IncrementTargetTemperature",
     "DecrementTargetTemperature", "DismissBoilAdditionAlert",
     "CancelOrFinishSession", "PressSet", "DisableSpargeWaterAlert",
     "ResetRecipeInterrupted"}

BoolVariants ==
    {"SetHeatActive", "SetPumpActive", "SetSpargeCounterActive",
     "SetBoilControlActive", "SetManualPowerControlActive",
     "SetSpargeAlertModeActive"}

\* UpdateActiveTimer(Delay::MinutesSeconds(m, s)) and UpdateActiveTimer(
\* Delay::Minutes(m)) are written as two variants.
SampleCommands ==
    {[variant |-> v] : v \in UnitVariants}
    \cup {[variant |-> v, active |-> a] : v \in BoolVariants, a \in BOOLEAN}
    \cup {[variant |-> v, minutes |-> m, seconds |-> sec] :
             v \in {"EnableDelayedHeatTimer", "UpdateActiveTimerMinutesSeconds"},
             m \in SampleMinutes, sec \in SampleSeconds}
    \cup {[variant |-> "UpdateActiveTimerMinutes", minutes |-> m] : m \in SampleMinutes}
    \cup {[variant |-> v, temp |-> t] :
             v \in {"SetTargetTemperature", "SetLocalBoilTemperature"},
             t \in SampleTemperatures}

InitEncode ==
    /\ command \in SampleCommands
    /\ encoded = NotRun
    /\ NotOpened
    /\ cb = "none"
    /\ subscribe_result = NotRun
    /\ gf_notification_buf = << >>
    /\ later = << >>
    /\ air = << >>
    /\ sent = 0
    /\ received = << >>
    /\ records = << >>
    /\ handled = << >>
    /\ panicked = FALSE
    /\ message = << >>
    /\ decoded = NotRun

\* command.to_vec(); which outcome an over-long content has depends on the build.
Encode ==
    /\ encoded = NotRun
    /\ encoded' \in to_vec(command)
    /\ UNCHANGED << session_vars, message, decoded, command >>

NextEncode == Encode

SpecEncode == InitEncode /\ [][NextEncode]_vars

(***************************************************************************)
(* Properties.                                                             *)
(***************************************************************************)

\* The concatenation of a sequence of byte sequences.
RECURSIVE Flatten(_)
Flatten(ss) == IF Len(ss) = 0 THEN << >> ELSE Head(ss) \o Flatten(Tail(ss))

\* The k-th complete 17-byte record of a byte stream, k >= 1.
RecordAt(stream, k) == SubSeq(stream, 17 * (k - 1) + 1, 17 * k)

\* The complete 17-byte records of a byte stream, in order.
CompleteRecords(stream) == [k \in 1..(Len(stream) \div 17) |-> RecordAt(stream, k)]

\* What is left of a byte stream after its complete records.
PartialRecord(stream) == SubSeq(stream, 17 * (Len(stream) \div 17) + 1, Len(stream))

\* The notifications of those records of recs that decode, in order.
RECURSIVE OkValues(_)
OkValues(recs) ==
    IF Len(recs) = 0 THEN << >>
    ELSE IF try_from(Head(recs)).kind = "Ok"
         THEN << try_from(Head(recs)).value >> \o OkValues(Tail(recs))
    ELSE OkValues(Tail(recs))

\* C1: whatever chunks the callback has processed, empty ones included, the
\* buffer it retains holds fewer than 17 bytes.
C1_TailBelowRecordLength ==
    Len(gf_notification_buf) >= 0 /\ Len(gf_notification_buf) < 17

\* C1's case: more than a record's worth of bytes went through the callback, a
\* record was drained, and a partial record is retained.
C1_Witness ==
    /\ Len(received) > 17
    /\ Len(records) >= 1
    /\ Len(gf_notification_buf) > 0

\* C2: the records taken and the tail retained after the chunks received so far
\* are those of one call of a fresh callback on the same bytes as a single chunk.
C2_ChunkingInvariance ==
    /\ records = on_value_notification(<< >>, received).yielded
    /\ gf_notification_buf = on_value_notification(<< >>, received).buf

\* C3: the records taken so far followed by the retained tail are the bytes
\* received so far, and the k-th record is bytes [17(k-1), 17k) of them.
C3_NoByteLostOrMisaligned ==
    /\ Flatten(records) \o gf_notification_buf = received
    /\ \A k \in 1..Len(records) : records[k] = RecordAt(received, k)

\* C4: after chunks totalling N bytes the handler has been called floor(N/17)
\* times, the k-th call with the notification of the k-th record received.
C4_HandlerOncePerRecord ==
    /\ Len(handled) = Len(received) \div 17
    /\ \A k \in 1..Len(handled) :
          /\ try_from(RecordAt(received, k)).kind = "Ok"
          /\ handled[k] = try_from(RecordAt(received, k)).value

\* A record whose decoding fails on a field: try_from does not return.
MalformedField(rec) == try_from(rec).kind = "Panic"

\* A record that is not valid text.
InvalidEncoding(rec) == ~from_utf8_ok(rec)

\* C5: when the records received are well-formed or have a malformed field, the
\* malformed ones cost only themselves: the handler has received every other
\* record, in order, and the buffer holds exactly the trailing partial record.
C5_MalformedFieldScoped ==
    (\A k \in 1..(Len(received) \div 17) : ~InvalidEncoding(RecordAt(received, k)))
    => /\ handled = OkValues(CompleteRecords(received))
       /\ gf_notification_buf = PartialRecord(received)

\* C6: a record that is not valid text fails with InvalidUtf8, and when the
\* records received are well-formed or not valid text, the handler has received
\* every well-formed one, in order.
C6_InvalidEncodingScoped ==
    (\A k \in 1..(Len(received) \div 17) : ~MalformedField(RecordAt(received, k)))
    => /\ \A k \in 1..(Len(received) \div 17) :
             InvalidEncoding(RecordAt(received, k))
             => try_from(RecordAt(received, k)) = Err("InvalidUtf8")
       /\ handled = OkValues(CompleteRecords(received))

\* C7: decoding a complete record returns a notification or a failure value.
C7_DecodeTotal ==
    decoded # NotRun => decoded.kind \in {"Ok", "Err"}

\* C8: to_vec returns a frame of exactly 19 bytes, the content followed by
\* spaces only, and no content is longer than 19 bytes.
C8_FrameIs19Bytes ==
    encoded # NotRun
    => /\ Len(Content(command)) <= 19
       /\ encoded.kind = "Ok"
       /\ Len(encoded.value) = 19
       /\ SubSeq(encoded.value, 1, Len(Content(command))) = Content(command)
       /\ \A i \in (Len(Content(command)) + 1)..19 : encoded.value[i] = Code(" ")

\* The record begins with a whole character, and it is none of the eight tags.
UnknownLeadingChar(rec) ==
    /\ Utf8SeqLen(rec, 1) # 0
    /\ FirstChar(rec) \notin
          {Code("X"), Code("T"), Code("Y"), Code("W"),
           Code("I"), Code("C"), Code("F"), Code("V")}

\* C9 as stated: such a record never fails to decode and gives Other(tag, text
\* after the tag); "Qabc" and padding gives Other(Q, "abc").
C9_AsStated ==
    (decoded # NotRun /\ UnknownLeadingChar(message))
    => /\ decoded.kind = "Ok"
       /\ decoded.value.type = "Other"
       /\ decoded.value.tag = FirstChar(message)
       /\ (SubSeq(message, 1, 4) = Bytes(<<"Q", "a", "b", "c">>)
           /\ \A i \in 5..17 : message[i] = message[5])
          => decoded.value.payload = Bytes(<<"a", "b", "c">>)

\* C9, amended: a record that is valid text and whose leading character is none
\* of the eight tags decodes to Other(tag, payload), the payload being all the
\* bytes after the tag character, padding included; "Qabc" and 13 spaces gives
\* Other(Q, "abc" and the 13 spaces).
C9_UnknownTagKeepsPadding ==
    (decoded # NotRun /\ from_utf8_ok(message) /\ UnknownLeadingChar(message))
    => /\ decoded.kind = "Ok"
       /\ decoded.value.type = "Other"
       /\ decoded.value.tag = FirstChar(message)
       /\ decoded.value.payload = SubSeq(message, Utf8SeqLen(message, 1) + 1, 17)
       /\ (message = Bytes(<<"Q", "a", "b", "c">>) \o Repeat(Code(" "), 13))
          => decoded.value =
                [type |-> "Other", tag |-> Code("Q"),
                 payload |-> Bytes(<<"a", "b", "c">>) \o Repeat(Code(" "), 13)]

\* C9's case: "Qabc" padded with spaces has been decoded.
C9_Witness ==
    /\ decoded # NotRun
    /\ message = Bytes(<<"Q", "a", "b", "c">>) \o Repeat(Code(" "), 13)

\* "V", the digit d1, a comma, the digit d2, then padding byte b up to 17 bytes.
VRecord(d1, d2, b) == << Code("V"), 48 + d1, Code(","), 48 + d2 >> \o Repeat(b, 13)

\* C10: a V record of two fields and padding decodes to VoltageAndUnits, V110
\* when the first field is 1 and V230 otherwise, Celsius when the second is 1 and
\* Fahrenheit otherwise.
C10_VoltageAndUnits ==
    decoded # NotRun
    => \A d1 \in {0, 1}, d2 \in {0, 1}, b \in {Code(" "), Code("Z")} :
          message = VRecord(d1, d2, b)
          => decoded = Ok([type |-> "VoltageAndUnits",
                           voltage |-> IF d1 = 1 THEN "V110" ELSE "V230",
                           units |-> IF d2 = 1 THEN "Celsius" ELSE "Fahrenheit"])

\* The text of a record after its one-byte tag.
RestOfText(rec) == SubSeq(rec, 2, Len(rec))

\* The index of the first comma of s, or Len(s) + 1 when it has none.
RECURSIVE FirstComma(_, _)
FirstComma(s, i) ==
    IF i > Len(s) \/ s[i] = Code(",") THEN i ELSE FirstComma(s, i + 1)

\* An F record has been decoded.
FRecordDecoded == decoded # NotRun /\ message[1] = Code("F")

\* C11 as stated: the firmware_version of an F record is the whole text after
\* the tag, commas and what follows them included.
C11_AsStated ==
    FRecordDecoded
    => /\ decoded.kind = "Ok"
       /\ decoded.value.type = "FirmwareVersion"
       /\ decoded.value.firmware_version = RestOfText(message)

\* C11, amended: the firmware_version of an F record that is valid text is the
\* text after the tag up to, not including, the first comma; it is the whole
\* text after the tag only when that text has no comma.
C11_FirmwareVersionUpToFirstComma ==
    (FRecordDecoded /\ from_utf8_ok(message))
    => /\ decoded.kind = "Ok"
       /\ decoded.value.type = "FirmwareVersion"
       /\ decoded.value.firmware_version =
             SubSeq(RestOfText(message), 1, FirstComma(RestOfText(message), 1) - 1)

\* C11's case: an F record whose text has a comma, with text after it, has been
\* decoded.
C11_Witness ==
    /\ FRecordDecoded
    /\ decoded.kind = "Ok"
    /\ FirstComma(RestOfText(message), 1) > 1
    /\ FirstComma(RestOfText(message), 1) < Len(RestOfText(message))

\* The calls of the given operation among the calls of the transport.
CallsOf(op) == SelectSeq(calls, LAMBDA call : call.op = op)

\* The operations asked of the transport, in order.
OpsCalled == [i \in 1..Len(calls) |-> calls[i].op]

\* The calls only try_from makes.
OpenCalls ==
    SelectSeq(calls, LAMBDA call :
        call.op \in {"is_connected", "connect", "discover_characteristics"})

OpenOps == [i \in 1..Len(OpenCalls) |-> OpenCalls[i].op]

\* C12: once open has returned, the transport was asked is_connected, then to
\* connect only if the answer was false, then to discover only if it was
\* connected or the connect succeeded, each once at most; a failed connect or
\* discovery is the error open returns; and they are the first calls made.
C12_OpenCallsInOrder ==
    open_result # NotRun
    => /\ OpenOps \in {<< "is_connected", "discover_characteristics" >>,
                        << "is_connected", "connect" >>,
                        << "is_connected", "connect", "discover_characteristics" >>}
       /\ SubSeq(calls, 1, Len(OpenCalls)) = OpenCalls
       /\ (Len(CallsOf("connect")) = 1) <=> (OpenCalls[1].result = Ok(FALSE))
       /\ \A i \in 1..Len(OpenCalls) :
             (OpenCalls[i].op = "connect" /\ OpenCalls[i].result.kind = "Err")
             => /\ open_result =
                      Err(GrainfatherClientError("Connect", OpenCalls[i].result.error))
                /\ Len(CallsOf("discover_characteristics")) = 0
       /\ \A i \in 1..Len(OpenCalls) :
             (OpenCalls[i].op = "connect" /\ OpenCalls[i].result.kind = "Ok")
             => Len(CallsOf("discover_characteristics")) = 1
       /\ \A i \in 1..Len(OpenCalls) :
             (OpenCalls[i].op = "discover_characteristics"
              /\ OpenCalls[i].result.kind = "Err")
             => open_result =
                   Err(GrainfatherClientError("DiscoverCharacteristics",
                                              OpenCalls[i].result.error))

\* C12's case: the transport was not connected, the connect succeeded and the
\* discovery failed.
C12_Witness ==
    /\ open_result.kind = "Err"
    /\ open_result.error.variant = "DiscoverCharacteristics"
    /\ OpenOps = << "is_connected", "connect", "discover_characteristics" >>

\* The read and the write identifier as a UUID holds them: sixteen bytes, least
\* significant first (0003cdd1-0000-1000-8000-00805f9b0131 and ...cdd2-...).
ReadIdentifier ==
    [kind |-> "B128",
     bytes |-> << 49, 1, 155, 95, 128, 0, 0, 128, 0, 16, 0, 0, 209, 205, 3, 0 >>]

WriteIdentifier ==
    [kind |-> "B128",
     bytes |-> << 49, 1, 155, 95, 128, 0, 0, 128, 0, 16, 0, 0, 210, 205, 3, 0 >>]

\* The list of characteristics cs has one with the given identifier.
Has(cs, id) == \E i \in 1..Len(cs) : cs[i].uuid = id

\* The list discovery returned.
Discovered == CallsOf("discover_characteristics")[1].result.value

\* Discovery was asked for and returned a list.
DiscoveryDone ==
    /\ open_result # NotRun
    /\ Len(CallsOf("discover_characteristics")) = 1
    /\ CallsOf("discover_characteristics")[1].result.kind = "Ok"

\* C13: after a discovery that returned a list, open succeeds exactly when the
\* list has both identifiers; it fails with ReadCharacteristic when the read one
\* is missing and with WriteCharacteristic when only the write one is; on
\* success the read and write of the client are characteristics of the list
\* with the read and the write identifier.
C13_BothCharacteristicsResolved ==
    DiscoveryDone
    => /\ (open_result.kind = "Ok")
          <=> (Has(Discovered, ReadIdentifier) /\ Has(Discovered, WriteIdentifier))
       /\ ~Has(Discovered, ReadIdentifier)
          => open_result = Err(GrainfatherClientError("ReadCharacteristic", "none"))
       /\ (Has(Discovered, ReadIdentifier) /\ ~Has(Discovered, WriteIdentifier))
          => open_result = Err(GrainfatherClientError("WriteCharacteristic", "none"))
       /\ (open_result.kind = "Ok")
          => /\ client = open_result.value
             /\ \E i \in 1..Len(Discovered) : Discovered[i] = client.read
             /\ \E i \in 1..Len(Discovered) : Discovered[i] = client.write
             /\ client.read.uuid = ReadIdentifier
             /\ client.write.uuid = WriteIdentifier

\* C13's case: open succeeded on a list of three characteristics.
C13_Witness ==
    /\ DiscoveryDone
    /\ open_result.kind = "Ok"
    /\ Len(Discovered) = 3

\* The calls command, send_recipe and subscribe make of the transport.
SessionCall(call) == call.op \in {"command", "on_notification", "subscribe"}

\* C14: a write, a callback registration or a subscribe request is made only
\* after an open that succeeded: the transport was connected or its connect
\* succeeded, discovery returned a list with both identifiers, and the call
\* comes after the discovery; a failed open leaves no client and no operation.
C14_OperationsNeedOpenSession ==
    /\ (open_result.kind # "Ok") => (client = NoClient /\ last = NoOperation)
    /\ \A i \in 1..Len(calls) :
          SessionCall(calls[i])
          => /\ open_result.kind = "Ok"
             /\ OpenCalls[1].result = Ok(TRUE)
                \/ (OpenCalls[2].op = "connect" /\ OpenCalls[2].result.kind = "Ok")
             /\ DiscoveryDone
             /\ Has(Discovered, ReadIdentifier) /\ Has(Discovered, WriteIdentifier)
             /\ \E j \in 1..(i - 1) : calls[j].op = "discover_characteristics"

\* C14's case: after an open that had to connect, a write was made and a
\* subscription asked for.
C14_Witness ==
    /\ Len(CallsOf("connect")) = 1
    /\ Len(CallsOf("command")) >= 1
    /\ Len(CallsOf("subscribe")) = 1

\* The last call made of the transport.
LastCall == calls[Len(calls)]

\* C15: a call of command makes exactly one call of the transport, a write to
\* the write characteristic of the 19-byte frame of the command, and returns
\* what that write returned; the client is as open made it.
C15_CommandWritesOneFrame ==
    last.op = "command"
    => /\ Len(calls) = last.from + 1
       /\ LastCall.op = "command"
       /\ LastCall.characteristic = client.write
       /\ LastCall.characteristic # client.read
       /\ Len(LastCall.data) = 19
       /\ Ok(LastCall.data) \in to_vec(last.arg)
       /\ last.result = LastCall.result
       /\ client = open_result.value

\* The state of the session: Subscribed once subscribe has returned Ok.
SessionState ==
    IF client = NoClient THEN "Disconnected"
    ELSE IF subscribe_result.kind = "Ok" THEN "Subscribed"
    ELSE "Connected"

\* C16: once subscribe has returned, the transport was asked once to subscribe,
\* on the read characteristic and not the write one; subscribe returned what the
\* transport answered, and the session is Subscribed only if that was Ok.
C16_SubscribeOnReadCharacteristic ==
    /\ (subscribe_result = NotRun) <=> (Len(CallsOf("subscribe")) = 0)
    /\ (subscribe_result # NotRun)
       => /\ Len(CallsOf("subscribe")) = 1
          /\ CallsOf("subscribe")[1].characteristic = client.read
          /\ CallsOf("subscribe")[1].characteristic.uuid = ReadIdentifier
          /\ CallsOf("subscribe")[1].characteristic # client.write
          /\ subscribe_result = CallsOf("subscribe")[1].result
    /\ (SessionState = "Subscribed")
       <=> (\E i \in 1..Len(calls) :
               /\ calls[i].op = "subscribe"
               /\ calls[i].characteristic.uuid = ReadIdentifier
               /\ calls[i].result.kind = "Ok")

\* C16's case: the transport refused the subscribe request.
C16_Witness ==
    /\ subscribe_result = Err("TimedOut")
    /\ SessionState = "Connected"

\* C17: the buffer changes only in a step that hands the callback a chunk, and
\* such a step is no call of the client; a step in which the client is made, a
\* command or a recipe written, a subscription asked for or bytes transmitted
\* leaves the buffer as it was; and between steps the buffer holds no record.
C17_BufferOwnedByCallback ==
    [][/\ (gf_notification_buf' # gf_notification_buf)
          => (received' # received /\ client_vars' = client_vars
              /\ subscribe_result' = subscribe_result)
       /\ (client_vars' # client_vars \/ subscribe_result' # subscribe_result
           \/ sent' # sent)
          => gf_notification_buf' = gf_notification_buf
       /\ Len(gf_notification_buf') < 17]_vars

\* C17's case: with a record drained and a partial record in the buffer, two
\* writes have been made.
C17_Witness ==
    /\ Len(gf_notification_buf) > 0
    /\ Len(records) >= 1
    /\ Len(CallsOf("command")) = 2

\* C18: a send_recipe that returned Ok made one write per command of the
\* recipe, in the order of the commands, each to the write characteristic and
\* each with the bytes of its command.
C18_RecipeWrittenInOrder ==
    (last.op = "send_recipe" /\ last.result.kind = "Ok")
    => /\ Len(calls) = last.from + Len(last.arg)
       /\ \A k \in 1..Len(last.arg) :
             /\ calls[last.from + k].op = "command"
             /\ calls[last.from + k].characteristic = client.write
             /\ calls[last.from + k].data = last.arg[k]
             /\ calls[last.from + k].result.kind = "Ok"

\* C18's case: a recipe of two different commands has been sent.
C18_Witness ==
    /\ last.op = "send_recipe"
    /\ last.result.kind = "Ok"
    /\ Len(last.arg) = 2
    /\ last.arg[1] # last.arg[2]

\* The tag of each command in the tag table.
TagOf(variant) ==
    CASE variant = "Reset" -> Code("Z")
      [] variant = "GetFirmwareVersion" -> Code("X")
      [] variant = "GetVoltageAndUnits" -> Code("g")
      [] variant = "GetBoilTemperature" -> Code("M")
      [] variant = "ToggleHeatActive" -> Code("H")
      [] variant = "SetHeatActive" -> Code("K")
      [] variant = "TogglePumpActive" -> Code("P")
      [] variant = "SetPumpActive" -> Code("L")
      [] variant = "EnableDelayedHeatTimer" -> Code("B")
      [] variant = "CancelActiveTimer" -> Code("C")
      [] variant = "UpdateActiveTimerMinutesSeconds" -> Code("W")
      [] variant = "UpdateActiveTimerMinutes" -> Code("S")
      [] variant = "PauseOrResumeActiveTimer" -> Code("G")
      [] variant = "IncrementTargetTemperature" -> Code("U")
      [] variant = "DecrementTargetTemperature" -> Code("D")
      [] variant = "SetTargetTemperature" -> Code("$")
      [] variant = "SetLocalBoilTemperature" -> Code("E")
      [] variant = "DismissBoilAdditionAlert" -> Code("A")
      [] variant = "CancelOrFinishSession" -> Code("F")
      [] variant = "PressSet" -> Code("T")
      [] variant = "DisableSpargeWaterAlert" -> Code("V")
      [] variant = "ResetRecipeInterrupted" -> Code("!")
      [] variant = "SetSpargeCounterActive" -> Code("d")
      [] variant = "SetBoilControlActive" -> Code("e")
      [] variant = "SetManualPowerControlActive" -> Code("f")
      [] variant = "SetSpargeAlertModeActive" -> Code("h")

\* A frame without the spaces at its end.
RECURSIVE FrameText(_)
FrameText(frame) ==
    IF Len(frame) > 0 /\ frame[Len(frame)] = Code(" ")
    THEN FrameText(SubSeq(frame, 1, Len(frame) - 1))
    ELSE frame

\* s is the decimal ASCII of the unsigned value v: digits only, no sign, no
\* leading zero, and it reads back as v.
IsDecimalOf(s, v, ty) ==
    /\ Len(s) >= 1
    /\ \A i \in 1..Len(s) : IsDigit(s[i])
    /\ (Len(s) = 1 \/ s[1] # Code("0"))
    /\ ParseUnsigned(s, ty).ok
    /\ ParseUnsigned(s, ty).val = v

\* text is the tag and parameters of command c as the tag table writes them.
TagAndParameters(c, text) ==
    /\ Len(text) >= 1
    /\ text[1] = TagOf(c.variant)
    /\ (c.variant \in UnitVariants) => text = << TagOf(c.variant) >>
    /\ (c.variant \in BoolVariants)
       => text = << TagOf(c.variant), IF c.active THEN Code("1") ELSE Code("0") >>
    /\ (c.variant \in {"EnableDelayedHeatTimer", "UpdateActiveTimerMinutesSeconds"})
       => /\ Len(split(Tail(text))) = 2
          /\ IsDecimalOf(split(Tail(text))[1], c.minutes, "u32")
          /\ IsDecimalOf(split(Tail(text))[2], c.seconds, "u8")
    /\ (c.variant = "UpdateActiveTimerMinutes")
       => IsDecimalOf(Tail(text), c.minutes, "u32")

\* C19: a frame begins with the tag of its command in the tag table; a boolean
\* parameter follows as 1 or 0, an integer parameter as decimal ASCII, minutes
\* and seconds in that order with one comma between them; then come spaces.
C19_TagThenParameters ==
    (encoded # NotRun /\ encoded.kind = "Ok")
    => TagAndParameters(command, FrameText(encoded.value))

\* C19's case: the frame of a timer command with minutes and seconds, the
\* minutes being u32::MAX, has been made.
C19_Witness ==
    /\ encoded # NotRun
    /\ encoded.kind = "Ok"
    /\ command.variant = "UpdateActiveTimerMinutesSeconds"
    /\ command.minutes = U(65535, 65535)
    /\ command.seconds = Small(30)

\* The place of the first call of the given operation among the calls of the
\* transport, or 0.
FirstCallOf(op) ==
    IF \E i \in 1..Len(calls) : calls[i].op = op
    THEN CHOOSE i \in 1..Len(calls) :
             calls[i].op = op /\ \A j \in 1..(i - 1) : calls[j].op # op
    ELSE 0

\* C20: after a subscribe that returned the failure of the transport, the
\* callback was registered before the subscribe request was made and is still
\* held by the transport; every record the callback took has gone through the
\* decoder to the handler, and as long as no decoding has panicked the records
\* taken are the complete records of the bytes delivered and the buffer holds
\* the partial record after them.
C20_CallbackRegisteredDespiteFailure ==
    (subscribe_result.kind = "Err")
    => /\ FirstCallOf("on_notification") > 0
       /\ FirstCallOf("on_notification") < FirstCallOf("subscribe")
       /\ cb # "none"
       /\ handled = OkValues(records)
       /\ ~panicked
          => /\ cb = "registered"
             /\ records = CompleteRecords(received)
             /\ gf_notification_buf = PartialRecord(received)

\* C20's case: after a refused subscribe request the handler has been given a
\* notification, and a partial record is in the buffer.
C20_Witness ==
    /\ subscribe_result.kind = "Err"
    /\ Len(handled) >= 1
    /\ Len(gf_notification_buf) > 0
    /\ ~panicked

\* The number of calls of the transport the latest operation made.
LastMade == Len(calls) - last.from

\* C21: a send_recipe that returned an error made k writes, k at least 1 and at
\* most the number of commands: the first k commands in order, each to the
\* write characteristic; the first k - 1 writes succeeded and stay in the log,
\* the k-th failed and its error is the one returned; no command after the
\* k-th was written.
C21_RecipeStopsAtFirstFailure ==
    (last.op = "send_recipe" /\ last.result.kind = "Err")
    => /\ LastMade >= 1
       /\ LastMade <= Len(last.arg)
       /\ \A k \in 1..LastMade :
             /\ calls[last.from + k].op = "command"
             /\ calls[last.from + k].characteristic = client.write
             /\ calls[last.from + k].data = last.arg[k]
             /\ (k < LastMade) => calls[last.from + k].result.kind = "Ok"
       /\ LastCall.result.kind = "Err"
       /\ last.result = LastCall.result

\* C21's case: the first write of a recipe of two commands failed, and the
\* second command was not written.
C21_Witness ==
    /\ last.op = "send_recipe"
    /\ last.result.kind = "Err"
    /\ Len(last.arg) = 2
    /\ LastMade = 1

\* A frame has been made of the command.
Framed == encoded # NotRun /\ encoded.kind = "Ok"

\* Command c has the frame that was made.
SameFrame(c) == encoded \in to_vec(c)

\* C22 as stated: the frame of a command is the frame of no other command, be it
\* of another variant or of the same variant with other parameters.
C22_AsStated ==
    Framed => \A c \in SampleCommands : SameFrame(c) => c = command

\* Two f64 parameters are equal, every NaN counting as equal to every NaN.
SameTemperature(a, b) == a = b \/ (a.class = "nan" /\ b.class = "nan")

\* Two commands are of one variant and their parameters are equal.
SameCommand(c, d) ==
    /\ c.variant = d.variant
    /\ IF c.variant \in {"SetTargetTemperature", "SetLocalBoilTemperature"}
       THEN SameTemperature(c.temp, d.temp)
       ELSE c = d

\* C22, amended: a command of another variant has a frame with another first
\* byte, and a command of the same variant has the same frame only when its
\* parameters are equal, all NaN temperatures counting as equal.
C22_FramesTellCommandsApart ==
    Framed
    => \A c \in SampleCommands :
          /\ (c.variant # command.variant)
             => \A frame \in to_vec(c) :
                   frame.kind = "Ok" => frame.value[1] # encoded.value[1]
          /\ SameFrame(c) => SameCommand(c, command)

\* C22's case: a frame has been made of a command with a parameter, and other
\* commands of its variant, with parameters of their own, have frames too.
C22_Witness ==
    /\ Framed
    /\ command.variant = "EnableDelayedHeatTimer"
    /\ \E c \in SampleCommands :
          /\ c.variant = command.variant
          /\ c # command
          /\ \E frame \in to_vec(c) : frame.kind = "Ok"

\* A callback cuts the stream of the chunks handed to it, and no other bytes:
\* its buffer holds what follows the last complete record of that stream, and
\* every record it passed on is a record of that stream at a multiple of 17
\* counted from its first chunk; all of them, in order, unless a call of it
\* panicked.
CutsOwnStream(buf, stream, passed, failed) ==
    /\ buf = PartialRecord(stream)
    /\ \A k \in 1..Len(passed) :
          \E m \in 1..(Len(stream) \div 17) : passed[k] = RecordAt(stream, m)
    /\ ~failed => passed = CompleteRecords(stream)

\* C23: every subscribe() call starts from its own empty reassembly buffer.  The
\* callback of a later subscribe() starts with nothing, whatever the callback of
\* an earlier one retains, and each registered callback cuts records at multiples
\* of 17 counted from the first chunk handed to it, keeping the rest of its own
\* stream in its own buffer.
C23_EachSubscribeOwnsItsBuffer ==
    /\ CutsOwnStream(gf_notification_buf, received, records, panicked)
    /\ \A j \in 1..Len(later) :
          /\ CutsOwnStream(later[j].buf, later[j].received, later[j].records,
                           later[j].panicked)
          /\ (later[j].received = << >>) => (later[j].buf = << >>)

\* The first callback retained bytes of a record when subscribe() was called
\* again; both callbacks have since cut a record, each at its own offset.
C23_Witness ==
    /\ Len(later) >= 1
    /\ ~panicked
    /\ ~later[1].panicked
    /\ records # << >>
    /\ later[1].records # << >>
    /\ Len(later[1].received) < Len(received)
    /\ gf_notification_buf # << >>
    /\ gf_notification_buf # later[1].buf
    /\ records[1] # later[1].records[1]

=============================================================================
